---- MODULE Spec2Model ----
(***************************************************************************)
(* Approval gating of openclaw-content-kit: the content files of one       *)
(* workspace, the signing key file, and the CLI commands init, approve,     *)
(* review and post (src/src/cli.ts) with the signing helpers they call      *)
(* (src/src/signing.ts) and the parser (src/src/parser.ts).                 *)
(*                                                                         *)
(* cli.ts holds two revisions of the CLI.  init, review and post are        *)
(* modelled from the later revision (lines 562-1237); approve exists only   *)
(* in the earlier revision (lines 297-393) and is modelled from there,      *)
(* with the resolveContentFile of that revision.                            *)
(***************************************************************************)
EXTENDS Integers, Sequences, FiniteSets, TLC

(***************************************************************************)
(* Bounds of the model.                                                    *)
(***************************************************************************)
MaxBody == 1     \* distinct non-empty post texts: 1..MaxBody (0 is the empty text)
MaxKeys == 1     \* key pairs generated in one behaviour

(***************************************************************************)
(* Enumerations.                                                           *)
(***************************************************************************)
Workspace == "ws"                       \* the directory init was run in
CwdDirs == {"ws", "home"}               \* directories a command is run from
ContentDirs == <<"drafts", "reviewed", "revised", "approved", "posted">>
DirSet == {ContentDirs[i] : i \in 1..Len(ContentDirs)}
\* File names.  The model follows one content item, a.md; "ts-a.md" stands for
\* every name post gives its archived copy (`${timestamp}-${basename}`).
Names == {"a.md", "ts-a.md"}
ArchiveName(name) == "ts-a.md"
Passwords == {"correctpw", "wrongpw", "secondpw"}
\* status values an agent writes: draft, or a word the kit does not know
DraftStatuses == {"draft", "other"}
DraftPlatforms == {"x"}                 \* platform values an agent writes
Feedbacks == {"punchier"}               \* feedback texts a reviewer enters
NoFeedback == ""                        \* the reviewer entered no line
\* The sealed files under ~/.content-pipeline: x-tokens.enc,
\* linkedin-profile.enc, reddit-credentials.enc.
Stores == {"xtokens", "profile", "reddit"}
XTokens == {<<"auth1", "ct1">>, <<"auth2", "ct2">>}   \* <<authToken, ct0>>
ProfileDirs == {"linkedin-profile"}
RedditCredentials == {"creds"}

Paths == DirSet \X Names
NoPath == <<"none", "none">>
NoFile == [none |-> TRUE]
NoKey == [none |-> TRUE]
NoSig == <<"nosig">>
NoHash == <<"nohash">>
NoSecret == [none |-> TRUE]
NoTokens == <<>>

\* A raw body is <<text, padded>>: the text and whether the file surrounds it
\* with extra whitespace; <<0, FALSE>> stands for every body without text.
RawBodies == {<<0, FALSE>>} \cup ((1..MaxBody) \X BOOLEAN)

VARIABLES
  files,             \* Paths -> content file or NoFile
  keyFile,           \* CwdDirs -> key file (.content-pipeline-key) or NoKey
  requireSignature,  \* requireSignature of the workspace's .content-kit.json
  keygen,            \* key pairs generated so far (freshness of generateKeypair)
  drafted,           \* the agent has written its draft
  last,              \* outcome of the last command: what the user saw
  secrets,           \* Stores -> sealed file under ~/.content-pipeline, or NoSecret
  returned,          \* what the last call of a signing.ts function returned
  pending,           \* the file-system call a running approve/review has still to make
  notices,           \* review messages handed to the agent: <<file name, feedback>>
  plainXTokens,      \* ~/.content-kit/x-tokens.json: <<authToken, ct0>>, or NoTokens
  tempDirs           \* the content-pipeline-* directories under os.tmpdir()

vars == <<files, keyFile, requireSignature, keygen, drafted, last, secrets, returned, pending, notices, plainXTokens, tempDirs>>

\* The state of the built-in posters outside ~/.content-pipeline.
posters == <<plainXTokens, tempDirs>>

\* The state the content commands leave alone.
aside == <<secrets, returned, pending, notices, posters>>

(***************************************************************************)
(* signing.ts                                                              *)
(***************************************************************************)
\* SHA-256 is modelled as an injective tagging of the content.
hashContent(content) == <<"sha256", content>>

\* Ed25519: a signature names the digest it covers and the key pair that
\* made it; key pair k has private key <<"priv", k>>, public key <<"pub", k>>.
\* A variant that signs the content itself instead of its digest.
signContent_Undigested(content, privateKey) == <<"sig", <<"raw", content>>, privateKey[2]>>

signContent(content, privateKey) ==
  <<"sig", hashContent(content), privateKey[2]>>

\* A variant that accepts a signature made by any key pair.
verify_AnyKey(hash, signatureBuffer, publicKey) ==
  IF publicKey[1] # "pub" THEN "throws"
  ELSE IF signatureBuffer[1] = "sig" /\ signatureBuffer[2] = hash THEN "true"
  ELSE "false"

\* crypto.verify(null, hash, publicKeyPem, signatureBuffer): throws for a
\* key that is no public key, otherwise answers whether the signature is
\* the key pair's signature of the hash.
verify(hash, signatureBuffer, publicKey) ==
  IF publicKey[1] # "pub" THEN "throws"
  ELSE IF /\ signatureBuffer[1] = "sig"
          /\ signatureBuffer[2] = hash
          /\ signatureBuffer[3] = publicKey[2]
  THEN "true"
  ELSE "false"

\* A variant without the try/catch.
verifyCaught_Rethrows(outcome) == outcome

\* try { ... } catch { return false }
verifyCaught(outcome) == IF outcome = "throws" THEN "false" ELSE outcome

\* "true", "false", or "throws" if an exception left the function.
\* Buffer.from(signature, 'base64') throws for a signature that is no string.
verifySignatureOutcome(content, signature, publicKey) ==
  verifyCaught(IF signature = NoSig THEN "throws"
               ELSE verify(hashContent(content), signature, publicKey))

verifySignature(content, signature, publicKey) ==
  verifySignatureOutcome(content, signature, publicKey) = "true"

\* scrypt + AES-256-GCM: the envelope opens only under the sealing password
\* and only if it was not corrupted.
Fail == <<"fail">>
\* A variant whose key derivation ignores the password.
decryptPrivateKey_AnyPassword(encryptedData, password) == encryptedData.encrypted

decryptPrivateKey(encryptedData, password) ==
  IF encryptedData.sealedWith = password /\ ~encryptedData.corrupt
  THEN encryptedData.encrypted
  ELSE Fail

\* A variant that finds a key file everywhere.
isSecureSigningEnabled_Always(cwd) == TRUE

isSecureSigningEnabled(cwd) == keyFile[cwd] # NoKey

NoPub == <<"nopub">>
loadPublicKey(cwd) ==
  IF keyFile[cwd] = NoKey THEN NoPub ELSE keyFile[cwd].publicKey

\* The signature, or Fail when the function throws.
signWithPassword(content, cwd, password) ==
  IF keyFile[cwd] = NoKey THEN Fail
  ELSE LET privateKey == decryptPrivateKey(keyFile[cwd], password)
       IN IF privateKey = Fail THEN Fail ELSE signContent(content, privateKey)

\* password.length
PwLen(p) == CASE p = "wrongpw" -> 7 [] p = "secondpw" -> 8 [] OTHER -> 9
MinPasswordLength == 8

\* The key file initSecureSigning leaves at cwd, and whether it threw.
\* A variant without the existsSync(keyPath) test.
initSecureSigning_Overwrites(cwd, password, confirmPassword) ==
  IF password # confirmPassword THEN [threw |-> TRUE, key |-> keyFile[cwd]]
  ELSE IF PwLen(password) < MinPasswordLength THEN [threw |-> TRUE, key |-> keyFile[cwd]]
  ELSE [threw |-> FALSE,
        key |-> [sealedWith |-> password, corrupt |-> FALSE,
                 encrypted |-> <<"priv", keygen + 1>>,
                 publicKey |-> <<"pub", keygen + 1>>, mode |-> "0600"]]

\* A variant without the password.length test.
initSecureSigning_AnyLength(cwd, password, confirmPassword) ==
  IF keyFile[cwd] # NoKey THEN [threw |-> TRUE, key |-> keyFile[cwd]]
  ELSE IF password # confirmPassword THEN [threw |-> TRUE, key |-> NoKey]
  ELSE [threw |-> FALSE,
        key |-> [sealedWith |-> password, corrupt |-> FALSE,
                 encrypted |-> <<"priv", keygen + 1>>,
                 publicKey |-> <<"pub", keygen + 1>>, mode |-> "0600"]]

initSecureSigning(cwd, password, confirmPassword) ==
  IF keyFile[cwd] # NoKey THEN [threw |-> TRUE, key |-> keyFile[cwd]]
  ELSE IF password # confirmPassword THEN [threw |-> TRUE, key |-> NoKey]
  ELSE IF PwLen(password) < MinPasswordLength THEN [threw |-> TRUE, key |-> NoKey]
  ELSE [threw |-> FALSE,
        key |-> [sealedWith |-> password, corrupt |-> FALSE,
                 encrypted |-> <<"priv", keygen + 1>>,
                 publicKey |-> <<"pub", keygen + 1>>, mode |-> "0600"]]

(***************************************************************************)
(* parser.ts                                                               *)
(***************************************************************************)
\* gray-matter splits the file; the content is trimmed.
parsePost(file) ==
  [frontmatter |-> [platform |-> file.platform, status |-> file.status,
                    approved_by |-> file.approved_by,
                    approval_signature |-> file.approval_signature,
                    content_hash |-> file.content_hash,
                    review_feedback |-> file.review_feedback],
   content |-> file.body[1]]

requireApproval == TRUE

DEFAULT_CONFIG == [requireApproval |-> requireApproval]

\* A variant that counts the draft warning as an error.
validatePost_DraftInvalid(post, config) ==
  LET errors ==
        (IF post.frontmatter.platform = "" THEN {"platform"} ELSE {})
        \cup (IF post.frontmatter.status \in {"", "draft"} THEN {"status"} ELSE {})
        \cup (IF config.requireApproval /\ post.frontmatter.status = "approved"
                 /\ ~post.frontmatter.approved_by
              THEN {"approval"} ELSE {})
        \cup (IF post.content = 0 THEN {"empty"} ELSE {})
  IN [valid |-> errors = {}, errors |-> errors, warnings |-> {}]

validatePost(post, config) ==
  LET errors ==
        (IF post.frontmatter.platform = "" THEN {"platform"} ELSE {})
        \cup (IF post.frontmatter.status = "" THEN {"status"} ELSE {})
        \cup (IF config.requireApproval /\ post.frontmatter.status = "approved"
                 /\ ~post.frontmatter.approved_by
              THEN {"approval"} ELSE {})
        \cup (IF post.content = 0 THEN {"empty"} ELSE {})
      warnings ==
        (IF post.frontmatter.status = "draft" THEN {"draft"} ELSE {})
        \cup (IF post.frontmatter.status = "posted" THEN {"posted"} ELSE {})
  IN [valid |-> errors = {}, errors |-> errors, warnings |-> warnings]

(***************************************************************************)
(* The initial state: `content-kit init` has been run in the workspace,     *)
(* without --secure, and nothing has been drafted.                          *)
(***************************************************************************)
Outcome(cmd, path, exit, diag, prompted) ==
  [cmd |-> cmd, path |-> path, exit |-> exit, diag |-> diag, prompted |-> prompted]

\* No approve or review is between two of its file-system calls.
NoPending ==
  [step |-> "none", from |-> NoPath, to |-> NoPath,
   last |-> Outcome("none", NoPath, 0, "none", FALSE)]

Pending(step, from, to, outcome) ==
  [step |-> step, from |-> from, to |-> to, last |-> outcome]

Init ==
  /\ files = [p \in Paths |-> NoFile]
  /\ keyFile = [d \in CwdDirs |-> NoKey]
  /\ requireSignature = FALSE
  /\ keygen = 0
  /\ drafted = FALSE
  /\ last = Outcome("none", NoPath, 0, "none", FALSE)
  /\ secrets = [s \in Stores |-> NoSecret]
  /\ returned = [op |-> "none", password |-> "", value |-> <<"void">>, of |-> NoSecret]
  /\ pending = NoPending
  /\ notices = {}
  /\ plainXTokens = NoTokens
  /\ tempDirs = {}

(***************************************************************************)
(* init [--secure], run in the workspace directory.                        *)
(***************************************************************************)
InitCmd(secure, password, confirmPassword) ==
  LET r == initSecureSigning(Workspace, password, confirmPassword) IN
  /\ (secure /\ keyFile[Workspace] = NoKey /\ ~r.threw) => keygen < MaxKeys
  /\ IF ~secure
     THEN /\ UNCHANGED <<keyFile, requireSignature, keygen>>
          /\ last' = Outcome("init", NoPath, 0, "Initialized", FALSE)
     ELSE IF r.threw
     THEN /\ UNCHANGED <<keyFile, requireSignature, keygen>>
          /\ last' = Outcome("init", NoPath, 1, "InitFailed",
                             keyFile[Workspace] = NoKey)
     ELSE /\ keyFile' = [keyFile EXCEPT ![Workspace] = r.key]
          /\ requireSignature' = TRUE
          /\ keygen' = keygen + 1
          /\ last' = Outcome("init", NoPath, 0, "Initialized", TRUE)
  /\ UNCHANGED <<files, drafted, aside>>

(***************************************************************************)
(* Content files.                                                          *)
(***************************************************************************)
File(platform, status, body, approved_by, approval_signature, content_hash, review_feedback) ==
  [platform |-> platform, status |-> status, body |-> body,
   approved_by |-> approved_by, approval_signature |-> approval_signature,
   content_hash |-> content_hash, review_feedback |-> review_feedback]

\* A <file> argument is a literal path <<dir, name>> or a bare file name
\* <<"bare", name>>.
Args == (DirSet \cup {"bare"}) \X Names

RECURSIVE FirstExisting(_, _)
FirstExisting(dirs, name) ==
  IF dirs = <<>> THEN NoPath
  ELSE IF files[<<Head(dirs), name>>] # NoFile THEN <<Head(dirs), name>>
  ELSE FirstExisting(Tail(dirs), name)

\* resolveContentFile of the earlier revision: literal, drafts/, approved/.
resolveContentFileV1(arg) ==
  IF arg[1] # "bare"
  THEN IF files[arg] # NoFile THEN arg ELSE NoPath
  ELSE FirstExisting(<<"drafts", "approved">>, arg[2])

\* resolveContentFile of the later revision: literal, drafts/, reviewed/,
\* revised/, approved/.
resolveContentFile(arg) ==
  IF arg[1] # "bare"
  THEN IF files[arg] # NoFile THEN arg ELSE NoPath
  ELSE FirstExisting(<<"drafts", "reviewed", "revised", "approved">>, arg[2])

\* writeFileSync(newPath, ...) followed by unlinkSync(filePath).
WriteThenUnlink(newPath, newFile, filePath) ==
  [p \in Paths |-> IF p = filePath THEN NoFile
                   ELSE IF p = newPath THEN newFile
                   ELSE files[p]]

\* writeFileSync(filePath, ...) followed by renameSync(filePath, newPath).
WriteThenRename(filePath, newFile, newPath) ==
  [p \in Paths |-> IF p = newPath THEN newFile
                   ELSE IF p = filePath THEN NoFile
                   ELSE files[p]]

(***************************************************************************)
(* approve <file> [--force]  (cli.ts, earlier revision)                     *)
(***************************************************************************)
\* The interactive-terminal check of approve.
approveRefusesStdin(isTTY, force) == ~isTTY /\ ~force

\* What approve writes for a file, given the signature it obtained (NoSig
\* when signing is not enabled): the two status regexes, then the regex that
\* adds the signature after the approved_at line.
approveNewContent(file, signed, signature) ==
  LET status == IF file.status = "draft" THEN "approved" ELSE file.status
      stamped == status = "approved"
  IN File(file.platform, status, file.body,
          IF stamped THEN TRUE ELSE file.approved_by,
          IF signed /\ stamped THEN signature ELSE file.approval_signature,
          IF signed /\ stamped THEN hashContent(parsePost(file).content)
                               ELSE file.content_hash,
          file.review_feedback)

\* A variant whose catch block does not exit.
signingThrew_Swallowed(signature) == FALSE

\* The try/catch around signWithPassword: a throw ends approve with exit 1.
signingThrew(signature) == signature = Fail

ApproveResult(cwd, arg, isTTY, force, password) ==
  LET filePath == resolveContentFileV1(arg) IN
  IF approveRefusesStdin(isTTY, force)
  THEN [files |-> files, last |-> Outcome("approve", NoPath, 1, "NeedsTTY", FALSE)]
  ELSE IF filePath = NoPath
  THEN [files |-> files, last |-> Outcome("approve", NoPath, 1, "FileNotFound", FALSE)]
  ELSE
  LET file == files[filePath]
      post == parsePost(file)
      secure == isSecureSigningEnabled(cwd)
      signature == IF secure THEN signWithPassword(post.content, cwd, password)
                   ELSE NoSig
      newPath == <<"approved", filePath[2]>>
  IN
  IF post.frontmatter.status = "approved"
  THEN [files |-> files, last |-> Outcome("approve", filePath, 0, "AlreadyApproved", FALSE)]
  ELSE IF post.frontmatter.status = "posted"
  THEN [files |-> files, last |-> Outcome("approve", filePath, 1, "AlreadyPosted", FALSE)]
  ELSE IF secure /\ signingThrew(signature)
  THEN [files |-> files, last |-> Outcome("approve", filePath, 1, "SigningFailed", TRUE)]
  ELSE [files |-> WriteThenUnlink(newPath, approveNewContent(file, secure, signature),
                                  filePath),
        last |-> Outcome("approve", newPath, 0, "Approved", secure)]

ApproveCmd(cwd, arg, isTTY, force, password) ==
  LET r == ApproveResult(cwd, arg, isTTY, force, password) IN
  /\ files' = r.files
  /\ last' = r.last
  /\ UNCHANGED <<keyFile, requireSignature, keygen, drafted, aside>>

(***************************************************************************)
(* review <file>  (cli.ts, later revision)                                  *)
(***************************************************************************)
\* The file rebuilt from the parsed front matter and the trimmed content.
Rebuilt(post) ==
  File(post.frontmatter.platform, post.frontmatter.status, <<post.content, FALSE>>,
       post.frontmatter.approved_by, post.frontmatter.approval_signature,
       post.frontmatter.content_hash, post.frontmatter.review_feedback)

\* String.prototype.toLowerCase on the replies a prompt can get.
toLowerCase(answer) ==
  CASE answer = "Y" -> "y"
    [] answer = "N" -> "n"
    [] answer = "YES" -> "yes"
    [] OTHER -> answer

confirmed_AnyAnswer(answer) == TRUE

\* resolve(answer.toLowerCase() === 'y')
confirmed(answer) == toLowerCase(answer) = "y"

\* feedback: the lines the reviewer entered; answer: the reply to "Approve?".
\* isTTY: whether standard input is a terminal; review never consults it.
ReviewResult(arg, feedback, answer, isTTY) ==
  LET filePath == resolveContentFile(arg) IN
  IF filePath = NoPath
  THEN [files |-> files, last |-> Outcome("review", NoPath, 1, "FileNotFound", FALSE)]
  ELSE
  LET parsed == parsePost(files[filePath])
      reviewedPath == <<"reviewed", filePath[2]>>
      approvedPath == <<"approved", filePath[2]>>
      withFeedback ==
        Rebuilt([parsed EXCEPT !.frontmatter.review_feedback = feedback])
      asApproved ==
        Rebuilt([parsed EXCEPT !.frontmatter.status = "approved",
                               !.frontmatter.approved_by = TRUE])
  IN
  IF feedback # NoFeedback
  THEN [files |-> WriteThenRename(filePath, withFeedback, reviewedPath),
        last |-> Outcome("review", reviewedPath, 0, "FeedbackSaved", FALSE)]
  ELSE IF confirmed(answer)
  THEN [files |-> WriteThenUnlink(approvedPath, asApproved, filePath),
        last |-> Outcome("review", approvedPath, 0, "Approved", FALSE)]
  ELSE [files |-> files, last |-> Outcome("review", filePath, 0, "NoChanges", FALSE)]

ReviewCmd(arg, feedback, answer, isTTY) ==
  LET r == ReviewResult(arg, feedback, answer, isTTY) IN
  /\ files' = r.files
  /\ last' = r.last
  /\ UNCHANGED <<keyFile, requireSignature, keygen, drafted, aside>>

\* What the configured agent command does with a message: no clawdbotPath
\* configured; the spawned command delivers it; the spawned command fails in
\* the detached child; the notification code throws inside its try block.
Clawdbots == {"unconfigured", "delivers", "fails", "throws"}

notifyEscapes_OnThrow(clawdbot) == clawdbot = "throws"

\* Whether an error of the notification leaves the try/catch around it.
notifyEscapes(clawdbot) == FALSE

\* The notices after review notified the agent about reviewedPath.
notifyAgent(clawdbot, reviewedPath, feedback) ==
  IF clawdbot = "delivers" THEN notices \cup {<<reviewedPath[2], feedback>>}
  ELSE notices

\* review with the agent notification that follows the move to reviewed/.
ReviewNotifyCmd(arg, feedback, answer, isTTY, clawdbot) ==
  LET r == ReviewResult(arg, feedback, answer, isTTY)
      saved == r.last.diag = "FeedbackSaved"
  IN
  /\ files' = r.files
  /\ last' = IF saved /\ notifyEscapes(clawdbot)
             THEN Outcome("review", r.last.path, 1, "NotifyFailed", FALSE)
             ELSE r.last
  /\ notices' = IF saved THEN notifyAgent(clawdbot, r.last.path, feedback) ELSE notices
  /\ UNCHANGED <<keyFile, requireSignature, keygen, drafted, secrets, returned, pending, posters>>

(***************************************************************************)
(* post <file> [--dry-run]  (cli.ts, later revision)                        *)
(***************************************************************************)
BuiltinPlatforms == {"linkedin", "x", "twitter", "reddit"}

\* A variant that also refuses an item whose status is not approved.
postGate_ChecksStatus(post, cwd) ==
  LET publicKey == loadPublicKey(cwd)
      signature == post.frontmatter.approval_signature
      storedHash == post.frontmatter.content_hash
  IN
  IF ~isSecureSigningEnabled(cwd) THEN "ok"
  ELSE IF signature = NoSig \/ storedHash = NoHash THEN "MissingSignature"
  ELSE IF post.frontmatter.status # "approved" THEN "MissingSignature"
  ELSE IF hashContent(post.content) # storedHash THEN "ContentModified"
  ELSE IF publicKey = NoPub \/ ~verifySignature(post.content, signature, publicKey)
  THEN "InvalidSignature"
  ELSE "ok"

\* The signature gate of post: "ok", or the diagnostic it exits with.
postGate(post, cwd) ==
  LET publicKey == loadPublicKey(cwd)
      signature == post.frontmatter.approval_signature
      storedHash == post.frontmatter.content_hash
  IN
  IF ~isSecureSigningEnabled(cwd) THEN "ok"
  ELSE IF signature = NoSig \/ storedHash = NoHash THEN "MissingSignature"
  ELSE IF hashContent(post.content) # storedHash THEN "ContentModified"
  ELSE IF publicKey = NoPub \/ ~verifySignature(post.content, signature, publicKey)
  THEN "InvalidSignature"
  ELSE "ok"

dryRunExits_Never(dryRun) == FALSE

\* "Dry-run exits here": if (options.dryRun) return.
dryRunExits(dryRun) == dryRun

adapterSucceeded_Always(adapter) == TRUE

\* result.success of plugin.post; a throw is caught and is no success.
adapterSucceeded(adapter) == adapter = "ok"

\* answer: the reply to "Post this?"; adapter: what plugin.post does.
PostResult(cwd, arg, dryRun, answer, adapter) ==
  LET filePath == resolveContentFile(arg) IN
  IF filePath = NoPath
  THEN [files |-> files, last |-> Outcome("post", NoPath, 1, "FileNotFound", FALSE)]
  ELSE
  LET post == parsePost(files[filePath])
      validation == validatePost(post, DEFAULT_CONFIG)
      gate == postGate(post, cwd)
      newPath == <<"posted", ArchiveName(filePath[2])>>
  IN
  IF validation.errors # {}
  THEN [files |-> files, last |-> Outcome("post", filePath, 1, "ValidationErrors", FALSE)]
  ELSE IF gate # "ok"
  THEN [files |-> files, last |-> Outcome("post", filePath, 1, gate, FALSE)]
  ELSE IF post.frontmatter.platform \notin BuiltinPlatforms
  THEN [files |-> files, last |-> Outcome("post", filePath, 1, "NoPoster", FALSE)]
  ELSE IF dryRunExits(dryRun)
  THEN [files |-> files, last |-> Outcome("post", filePath, 0, "DryRun", FALSE)]
  ELSE IF ~confirmed(answer)
  THEN [files |-> files, last |-> Outcome("post", filePath, 0, "Cancelled", FALSE)]
  ELSE IF adapterSucceeded(adapter)
  THEN [files |-> [p \in Paths |-> IF p = newPath THEN files[filePath]
                                   ELSE IF p = filePath THEN NoFile
                                   ELSE files[p]],
        last |-> Outcome("post", newPath, 0, "Posted", FALSE)]
  ELSE IF adapter = "fail"
  THEN [files |-> files, last |-> Outcome("post", filePath, 1, "AdapterFailed", FALSE)]
  ELSE [files |-> files, last |-> Outcome("post", filePath, 1, "AdapterThrew", FALSE)]

\* The archive name carries a fresh timestamp, so the rename never replaces
\* another archived file.
PostCmd(cwd, arg, dryRun, answer, adapter) ==
  LET r == PostResult(cwd, arg, dryRun, answer, adapter) IN
  /\ r.last.diag = "Posted" =>
       \/ files[r.last.path] = NoFile
       \/ r.last.path = resolveContentFile(arg)
  /\ files' = r.files
  /\ last' = r.last
  /\ UNCHANGED <<keyFile, requireSignature, keygen, drafted, aside>>

\* The adapter (plugin.post) ran in the last command.
AdapterInvoked ==
  last.cmd = "post" /\ last.diag \in {"Posted", "AdapterFailed", "AdapterThrew"}

(***************************************************************************)
(* The agent and other writers outside the CLI.                             *)
(***************************************************************************)
\* The agent writes a draft, as AGENT.md instructs.
AgentDraft(body, status, platform) ==
  /\ ~drafted
  /\ files' = [files EXCEPT ![<<"drafts", "a.md">>] =
                 File(platform, status, body, FALSE, NoSig, NoHash, NoFeedback)]
  /\ drafted' = TRUE
  /\ last' = Outcome("env", NoPath, 0, "none", FALSE)
  /\ UNCHANGED <<keyFile, requireSignature, keygen, aside>>

\* The agent revises a reviewed file and moves it to revised/.
AgentRevise(path, body) ==
  LET dest == <<"revised", path[2]>> IN
  /\ path[1] = "reviewed"
  /\ files[path] # NoFile
  /\ files[dest] = NoFile
  /\ files' = [files EXCEPT ![dest] = [files[path] EXCEPT !.body = body],
                            ![path] = NoFile]
  /\ last' = Outcome("env", NoPath, 0, "none", FALSE)
  /\ UNCHANGED <<keyFile, requireSignature, keygen, drafted, aside>>

\* Somebody overwrites the body of a file in place; with rehash the writer
\* also recomputes a stored content_hash (it cannot recompute the signature).
ExternalEdit(path, body, rehash) ==
  /\ files[path] # NoFile
  /\ files[path].body # body
  /\ rehash => files[path].content_hash # NoHash
  /\ files' = [files EXCEPT ![path] =
                 [@ EXCEPT !.body = body,
                           !.content_hash = IF rehash THEN hashContent(body[1])
                                            ELSE @]]
  /\ last' = Outcome("env", NoPath, 0, "none", FALSE)
  /\ UNCHANGED <<keyFile, requireSignature, keygen, drafted, aside>>

\* The archived file is marked `status: posted` by hand (README, Post Format).
MarkPosted(path) ==
  /\ path[1] = "posted"
  /\ files[path] # NoFile
  /\ files[path].status # "posted"
  /\ files' = [files EXCEPT ![path].status = "posted"]
  /\ last' = Outcome("env", NoPath, 0, "none", FALSE)
  /\ UNCHANGED <<keyFile, requireSignature, keygen, drafted, aside>>

\* The key file is git-ignored: a fresh checkout of the workspace has the
\* configuration but no key file.
KeyFileLost ==
  /\ keyFile[Workspace] # NoKey
  /\ keyFile' = [keyFile EXCEPT ![Workspace] = NoKey]
  /\ last' = Outcome("env", NoPath, 0, "none", FALSE)
  /\ UNCHANGED <<files, requireSignature, keygen, drafted, aside>>

\* The sealed private key of the key file is damaged on disk.
KeyFileCorrupted ==
  /\ keyFile[Workspace] # NoKey
  /\ ~keyFile[Workspace].corrupt
  /\ keyFile' = [keyFile EXCEPT ![Workspace].corrupt = TRUE]
  /\ last' = Outcome("env", NoPath, 0, "none", FALSE)
  /\ UNCHANGED <<files, requireSignature, keygen, drafted, aside>>

(***************************************************************************)
(* Inputs.  An argument is the literal path of a file that exists, the bare *)
(* name a.md, or the bare name of a file that exists.  Of the options and   *)
(* replies of a command, the combinations that reach the same branch with   *)
(* the same effect are represented once.                                    *)
(***************************************************************************)
Existing == {p \in Paths : files[p] # NoFile}
ArgsNow == {a \in Args : IF a[1] = "bare"
                         THEN a[2] = "a.md" \/ \E p \in Existing : p[2] = a[2]
                         ELSE a \in Existing}
\* <<secure, password, confirmPassword>>
InitInputs == {<<FALSE, "correctpw", "correctpw">>, <<TRUE, "correctpw", "correctpw">>,
               <<TRUE, "correctpw", "wrongpw">>, <<TRUE, "wrongpw", "wrongpw">>}
\* <<cwd, isTTY, force, password>>
ApproveInputs == {<<"ws", TRUE, FALSE, "correctpw">>, <<"ws", TRUE, FALSE, "wrongpw">>,
                  <<"ws", FALSE, TRUE, "correctpw">>, <<"ws", FALSE, TRUE, "wrongpw">>,
                  <<"ws", FALSE, FALSE, "correctpw">>,
                  <<"home", TRUE, FALSE, "correctpw">>}
\* <<feedback, answer, isTTY>>
ReviewInputs == {<<f, "n", TRUE>> : f \in Feedbacks}
                \cup {<<NoFeedback, "y", TRUE>>, <<NoFeedback, "y", FALSE>>,
                      <<NoFeedback, "n", TRUE>>}
\* <<cwd, dryRun, answer, adapter>>
PostInputs == {<<"ws", TRUE, "y", "ok">>, <<"ws", FALSE, "n", "ok">>,
               <<"ws", FALSE, "y", "ok">>, <<"ws", FALSE, "y", "fail">>,
               <<"ws", FALSE, "y", "throw">>, <<"home", FALSE, "y", "ok">>}

Next ==
  \/ \E in \in InitInputs : InitCmd(in[1], in[2], in[3])
  \/ \E arg \in ArgsNow, in \in ApproveInputs :
        ApproveCmd(in[1], arg, in[2], in[3], in[4])
  \/ \E arg \in ArgsNow, in \in ReviewInputs : ReviewCmd(arg, in[1], in[2], in[3])
  \/ \E arg \in ArgsNow, in \in PostInputs :
        PostCmd(in[1], arg, in[2], in[3], in[4])
  \/ \E body \in RawBodies, status \in DraftStatuses, platform \in DraftPlatforms :
        AgentDraft(body, status, platform)
  \/ \E path \in Existing, body \in RawBodies : AgentRevise(path, body)
  \/ \E path \in Existing, body \in RawBodies, rehash \in BOOLEAN :
        ExternalEdit(path, body, rehash)
  \/ \E path \in Existing : MarkPosted(path)
  \/ KeyFileLost
  \/ KeyFileCorrupted

Spec == Init /\ [][Next]_vars

(***************************************************************************)
(* The sealing functions of signing.ts and posters/reddit.ts, called with   *)
(* every password.  A sealed file is the envelope {salt, iv, authTag,       *)
(* encrypted}: sealedWith is the password its AES-256-GCM key derives from, *)
(* corrupt whether its bytes were damaged, mode its permission bits.        *)
(* `returned` records a call: the function, the password it was given, the  *)
(* value it returned (Fail: it threw) and what it was applied to: the       *)
(* envelope it opened or the plaintext it sealed.                           *)
(***************************************************************************)
Void == <<"void">>
Returned(op, password, value, of) ==
  [op |-> op, password |-> password, value |-> value, of |-> of]

\* The mode writeFileSync gives a new file: 0666 less the umask.
DefaultMode == "0666 & ~umask"

encryptPrivateKey(privateKey, password) ==
  [sealedWith |-> password, corrupt |-> FALSE, encrypted |-> privateKey,
   publicKey |-> NoPub]

getPassword(cwd, password) ==
  IF keyFile[cwd] # NoKey /\ decryptPrivateKey(keyFile[cwd], password) = Fail
  THEN Fail
  ELSE <<"password", password>>

\* A variant that serialises the two tokens in each other's place.
encryptXTokens_Swapped(authToken, ct0, password) ==
  [sealedWith |-> password, corrupt |-> FALSE,
   encrypted |-> <<"json", ct0, authToken>>, mode |-> "0600"]

encryptXTokens(authToken, ct0, password) ==
  [sealedWith |-> password, corrupt |-> FALSE,
   encrypted |-> <<"json", authToken, ct0>>, mode |-> "0600"]

decryptXTokens(password) ==
  LET input == secrets["xtokens"] IN
  IF input = NoSecret THEN Fail
  ELSE IF input.sealedWith = password /\ ~input.corrupt
  THEN <<"tokens", input.encrypted[2], input.encrypted[3]>>
  ELSE Fail

encryptDirectory(sourceDir, password) ==
  [sealedWith |-> password, corrupt |-> FALSE,
   encrypted |-> <<"tar", sourceDir>>, mode |-> "0600"]

decryptDirectory(password) ==
  LET input == secrets["profile"] IN
  IF input = NoSecret THEN Fail
  ELSE IF input.sealedWith = password /\ ~input.corrupt
  THEN <<"dir", input.encrypted[2]>>
  ELSE Fail

\* posters/reddit.ts: writeFileSync without chmodSync.
encryptCredentials(credentials, password) ==
  [sealedWith |-> password, corrupt |-> FALSE,
   encrypted |-> <<"json", credentials>>, mode |-> DefaultMode]

decryptCredentials(password) ==
  LET input == secrets["reddit"] IN
  IF input = NoSecret THEN Fail
  ELSE IF input.sealedWith = password /\ ~input.corrupt
  THEN <<"credentials", input.encrypted[2]>>
  ELSE Fail

InitSecureSigningCall(password, confirmPassword) ==
  LET r == initSecureSigning(Workspace, password, confirmPassword) IN
  /\ (keyFile[Workspace] = NoKey /\ ~r.threw) => keygen < MaxKeys
  /\ keyFile' = [keyFile EXCEPT ![Workspace] = r.key]
  /\ keygen' = IF r.threw THEN keygen ELSE keygen + 1
  /\ returned' = Returned("initSecureSigning", password,
                          IF r.threw THEN Fail ELSE r.key.publicKey,
                          [confirmPassword |-> confirmPassword,
                           existed |-> keyFile[Workspace] # NoKey])
  /\ UNCHANGED <<posters, notices, pending, files, requireSignature, drafted, last, secrets>>

SignWithPasswordCall(text, password) ==
  /\ returned' = Returned("signWithPassword", password,
                          signWithPassword(text, Workspace, password),
                          keyFile[Workspace])
  /\ UNCHANGED <<posters, notices, pending, files, keyFile, requireSignature, keygen, drafted, last, secrets>>

GetPasswordCall(password) ==
  /\ returned' = Returned("getPassword", password,
                          getPassword(Workspace, password), keyFile[Workspace])
  /\ UNCHANGED <<posters, notices, pending, files, keyFile, requireSignature, keygen, drafted, last, secrets>>

EncryptPrivateKeyCall(k, password) ==
  /\ returned' = Returned("encryptPrivateKey", password,
                          encryptPrivateKey(<<"priv", k>>, password), <<"priv", k>>)
  /\ UNCHANGED <<posters, notices, pending, files, keyFile, requireSignature, keygen, drafted, last, secrets>>

\* decryptPrivateKey applied to the envelope encryptPrivateKey just returned.
DecryptPrivateKeyCall(password) ==
  /\ returned.op = "encryptPrivateKey"
  /\ returned' = Returned("decryptPrivateKey", password,
                          decryptPrivateKey(returned.value, password),
                          returned.value)
  /\ UNCHANGED <<posters, notices, pending, files, keyFile, requireSignature, keygen, drafted, last, secrets>>

EncryptXTokensCall(tokens, password) ==
  /\ secrets' = [secrets EXCEPT !["xtokens"] =
                   encryptXTokens(tokens[1], tokens[2], password)]
  /\ returned' = Returned("encryptXTokens", password, Void, NoSecret)
  /\ UNCHANGED <<posters, notices, pending, files, keyFile, requireSignature, keygen, drafted, last>>

DecryptXTokensCall(password) ==
  /\ returned' = Returned("decryptXTokens", password, decryptXTokens(password),
                          secrets["xtokens"])
  /\ UNCHANGED <<posters, notices, pending, files, keyFile, requireSignature, keygen, drafted, last, secrets>>

EncryptDirectoryCall(sourceDir, password) ==
  /\ secrets' = [secrets EXCEPT !["profile"] = encryptDirectory(sourceDir, password)]
  /\ returned' = Returned("encryptDirectory", password, Void, NoSecret)
  /\ UNCHANGED <<posters, notices, pending, files, keyFile, requireSignature, keygen, drafted, last>>

DecryptDirectoryCall(password) ==
  /\ returned' = Returned("decryptDirectory", password, decryptDirectory(password),
                          secrets["profile"])
  /\ UNCHANGED <<posters, notices, pending, files, keyFile, requireSignature, keygen, drafted, last, secrets>>

EncryptCredentialsCall(credentials, password) ==
  /\ secrets' = [secrets EXCEPT !["reddit"] = encryptCredentials(credentials, password)]
  /\ returned' = Returned("encryptCredentials", password, Void, NoSecret)
  /\ UNCHANGED <<posters, notices, pending, files, keyFile, requireSignature, keygen, drafted, last>>

DecryptCredentialsCall(password) ==
  /\ returned' = Returned("decryptCredentials", password,
                          decryptCredentials(password), secrets["reddit"])
  /\ UNCHANGED <<posters, notices, pending, files, keyFile, requireSignature, keygen, drafted, last, secrets>>

\* Key pairs generateKeypair can return: those of the key files and one more.
KeyPairs == 1..(MaxKeys + 1)

\* Signature arguments: every signature signContent makes, a string that is
\* no signature, and no string at all.
Signatures ==
  {signContent(c, <<"priv", k>>) : c \in 0..MaxBody, k \in KeyPairs}
    \cup {<<"not-a-valid-signature">>, NoSig}

\* Public key arguments: every generated public key, a string that is no
\* PEM key, and null.
PublicKeys == {<<"pub", k>> : k \in KeyPairs} \cup {<<"not-a-key">>, NoPub}

Verified(content, signature, publicKey) ==
  Returned("verifySignature", "",
           <<"verify", verifySignatureOutcome(content, signature, publicKey)>>,
           [content |-> content, signature |-> signature, publicKey |-> publicKey])

VerifySignatureCall(content, signature, publicKey) ==
  /\ returned' = Verified(content, signature, publicKey)
  /\ UNCHANGED <<posters, notices, pending, files, keyFile, requireSignature, keygen, drafted, last, secrets>>

\* signWithPassword on the workspace's key file, then verifySignature with
\* the public key loadPublicKey reads from it.
SignThenVerifyCall(text, password) ==
  LET signature == signWithPassword(text, Workspace, password) IN
  /\ signature # Fail
  /\ returned' = [Verified(text, signature, loadPublicKey(Workspace))
                    EXCEPT !.password = password]
  /\ UNCHANGED <<posters, notices, pending, files, keyFile, requireSignature, keygen, drafted, last, secrets>>

VaultNext ==
  \/ \E p \in Passwords, c \in Passwords : InitSecureSigningCall(p, c)
  \/ \E text \in 0..MaxBody, p \in Passwords : SignWithPasswordCall(text, p)
  \/ \E p \in Passwords : GetPasswordCall(p)
  \/ \E k \in 1..MaxKeys, p \in Passwords : EncryptPrivateKeyCall(k, p)
  \/ \E p \in Passwords : DecryptPrivateKeyCall(p)
  \/ \E tokens \in XTokens, p \in Passwords : EncryptXTokensCall(tokens, p)
  \/ \E p \in Passwords : DecryptXTokensCall(p)
  \/ \E dir \in ProfileDirs, p \in Passwords : EncryptDirectoryCall(dir, p)
  \/ \E p \in Passwords : DecryptDirectoryCall(p)
  \/ \E credentials \in RedditCredentials, p \in Passwords :
        EncryptCredentialsCall(credentials, p)
  \/ \E content \in 0..MaxBody, signature \in Signatures, publicKey \in PublicKeys :
        VerifySignatureCall(content, signature, publicKey)
  \/ \E text \in 0..MaxBody, p \in Passwords : SignThenVerifyCall(text, p)
  \/ \E p \in Passwords : DecryptCredentialsCall(p)

VaultSpec == Init /\ [][VaultNext]_vars

(***************************************************************************)
(* The review loop alone: the agent drafts and revises, the reviewer        *)
(* reviews, with two feedback texts so that a second round of feedback      *)
(* differs from the first.                                                  *)
(***************************************************************************)
FeedbackRounds == Feedbacks \cup {"shorter"}

ReviewNext ==
  \/ \E body \in RawBodies, status \in DraftStatuses, platform \in DraftPlatforms :
        AgentDraft(body, status, platform)
  \/ \E path \in Existing, body \in RawBodies : AgentRevise(path, body)
  \/ \E arg \in ArgsNow, feedback \in FeedbackRounds, clawdbot \in Clawdbots :
        ReviewNotifyCmd(arg, feedback, "n", TRUE, clawdbot)
  \/ \E arg \in ArgsNow, answer \in {"y", "n"}, isTTY \in BOOLEAN :
        ReviewCmd(arg, NoFeedback, answer, isTTY)
  \/ \E path \in Existing, body \in RawBodies : ExternalEdit(path, body, FALSE)

ReviewSpec == Init /\ [][ReviewNext]_vars

(***************************************************************************)
(* approve and review one file-system call at a time.  pending is the call  *)
(* the running command has still to make: other processes read the content  *)
(* directories between the calls, and the process can be killed there.     *)
(***************************************************************************)
\* approve up to and including writeFileSync(newPath, ...); a run that stops
\* before writing is the whole command.
ApproveWrite(cwd, arg, isTTY, force, password) ==
  LET r == ApproveResult(cwd, arg, isTTY, force, password)
      filePath == resolveContentFileV1(arg)
      secure == isSecureSigningEnabled(cwd)
      signature == IF secure
                   THEN signWithPassword(parsePost(files[filePath]).content, cwd, password)
                   ELSE NoSig
  IN
  /\ pending = NoPending
  /\ IF r.last.diag = "Approved"
     THEN /\ files' = [files EXCEPT ![r.last.path] =
                         approveNewContent(files[filePath], secure, signature)]
          /\ pending' = Pending("unlink", filePath, r.last.path, r.last)
          /\ last' = Outcome("approve", filePath, 0, "running", secure)
     ELSE /\ files' = r.files
          /\ last' = r.last
          /\ UNCHANGED pending
  /\ UNCHANGED <<keyFile, requireSignature, keygen, drafted, secrets, returned, notices, posters>>

\* review up to and including its writeFileSync: of filePath in the feedback
\* branch, of approvedPath in the approve branch.
ReviewWrite(arg, feedback, answer, isTTY) ==
  LET r == ReviewResult(arg, feedback, answer, isTTY)
      filePath == resolveContentFile(arg)
      parsed == parsePost(files[filePath])
  IN
  /\ pending = NoPending
  /\ IF r.last.diag = "FeedbackSaved"
     THEN /\ files' = [files EXCEPT ![filePath] =
                         Rebuilt([parsed EXCEPT !.frontmatter.review_feedback = feedback])]
          /\ pending' = Pending("rename", filePath, r.last.path, r.last)
          /\ last' = Outcome("review", filePath, 0, "running", FALSE)
     ELSE IF r.last.diag = "Approved"
     THEN /\ files' = [files EXCEPT ![r.last.path] =
                         Rebuilt([parsed EXCEPT !.frontmatter.status = "approved",
                                                !.frontmatter.approved_by = TRUE])]
          /\ pending' = Pending("unlink", filePath, r.last.path, r.last)
          /\ last' = Outcome("review", filePath, 0, "running", FALSE)
     ELSE /\ files' = r.files
          /\ last' = r.last
          /\ UNCHANGED pending
  /\ UNCHANGED <<keyFile, requireSignature, keygen, drafted, secrets, returned, notices, posters>>

\* unlinkSync(filePath), then the command's closing output.
Unlink ==
  /\ pending.step = "unlink"
  /\ files' = [files EXCEPT ![pending.from] = NoFile]
  /\ last' = pending.last
  /\ pending' = NoPending
  /\ UNCHANGED <<keyFile, requireSignature, keygen, drafted, secrets, returned, notices, posters>>

\* renameSync(filePath, reviewedPath), then the command's closing output.
Rename ==
  /\ pending.step = "rename"
  /\ files' = [p \in Paths |-> IF p = pending.to THEN files[pending.from]
                               ELSE IF p = pending.from THEN NoFile
                               ELSE files[p]]
  /\ last' = pending.last
  /\ pending' = NoPending
  /\ UNCHANGED <<keyFile, requireSignature, keygen, drafted, secrets, returned, notices, posters>>

\* The process is killed between two calls (Ctrl-C, closed terminal).
Interrupted ==
  /\ pending # NoPending
  /\ last' = Outcome(pending.last.cmd, pending.from, 130, "Interrupted", FALSE)
  /\ pending' = NoPending
  /\ UNCHANGED <<files, keyFile, requireSignature, keygen, drafted, secrets, returned, notices, posters>>

StepNext ==
  \/ \E body \in RawBodies, status \in DraftStatuses, platform \in DraftPlatforms :
        AgentDraft(body, status, platform)
  \/ \E i \in InitInputs : pending = NoPending /\ InitCmd(i[1], i[2], i[3])
  \/ \E arg \in ArgsNow, i \in ApproveInputs : ApproveWrite(i[1], arg, i[2], i[3], i[4])
  \/ \E arg \in ArgsNow, i \in ReviewInputs : ReviewWrite(arg, i[1], i[2], i[3])
  \/ Unlink
  \/ Rename
  \/ Interrupted

StepSpec == Init /\ [][StepNext]_vars

(***************************************************************************)
(* parser.ts alone: validatePost applied to the parse of any content file   *)
(* under either setting of requireApproval.                                 *)
(***************************************************************************)
\* Front matter values: "" is a missing field.
Platforms == {"", "x", "linkedin", "mastodon"}
Statuses == {"", "draft", "approved", "posted", "other"}

ValidatePostCall(file, config) ==
  /\ returned' = Returned("validatePost", "",
                          <<"validation", validatePost(parsePost(file), config)>>,
                          [post |-> parsePost(file), config |-> config])
  /\ UNCHANGED <<posters, notices, pending, files, keyFile, requireSignature, keygen, drafted, last, secrets>>

ParserNext ==
  \E platform \in Platforms, status \in Statuses, body \in RawBodies,
     approved_by \in BOOLEAN, required \in BOOLEAN :
    ValidatePostCall(File(platform, status, body, approved_by, NoSig, NoHash, NoFeedback),
                     [requireApproval |-> required])

ParserSpec == Init /\ [][ParserNext]_vars

(***************************************************************************)
(* Two items with one file name: after a review the agent is told to save   *)
(* the revised version back to drafts/ under the same name, and a new post  *)
(* can be drafted under the name of an earlier one.                         *)
(***************************************************************************)
\* The agent writes drafts/a.md while an a.md lies in another directory.
AgentDraftNamesake(body, status, platform) ==
  /\ files[<<"drafts", "a.md">>] = NoFile
  /\ \E p \in Existing : p[2] = "a.md"
  /\ files' = [files EXCEPT ![<<"drafts", "a.md">>] =
                 File(platform, status, body, FALSE, NoSig, NoHash, NoFeedback)]
  /\ last' = Outcome("env", NoPath, 0, "none", FALSE)
  /\ UNCHANGED <<keyFile, requireSignature, keygen, drafted, aside>>

NamesakeNext ==
  \/ \E body \in RawBodies, status \in DraftStatuses, platform \in DraftPlatforms :
        AgentDraft(body, status, platform)
  \/ \E body \in RawBodies, status \in DraftStatuses, platform \in DraftPlatforms :
        AgentDraftNamesake(body, status, platform)
  \/ \E arg \in ArgsNow : ApproveCmd(Workspace, arg, TRUE, FALSE, "correctpw")
  \/ \E arg \in ArgsNow, in \in ReviewInputs : ReviewCmd(arg, in[1], in[2], in[3])

NamesakeSpec == Init /\ [][NamesakeNext]_vars

(***************************************************************************)
(* An approved file whose front matter is edited before it is posted.       *)
(***************************************************************************)
\* Somebody rewrites front matter fields of a file in place; the body and
\* the approval_signature and content_hash lines stay as they are.
FrontMatterEdit(path, platform, status, approved_by) ==
  /\ files[path] # NoFile
  /\ files' = [files EXCEPT ![path] = [@ EXCEPT !.platform = platform,
                                                 !.status = status,
                                                 !.approved_by = approved_by]]
  /\ files' # files
  /\ last' = Outcome("env", NoPath, 0, "none", FALSE)
  /\ UNCHANGED <<keyFile, requireSignature, keygen, drafted, aside>>

RetargetNext ==
  \/ \E in \in InitInputs : InitCmd(in[1], in[2], in[3])
  \/ \E body \in RawBodies, status \in DraftStatuses, platform \in DraftPlatforms :
        AgentDraft(body, status, platform)
  \/ \E arg \in ArgsNow, in \in ApproveInputs :
        ApproveCmd(in[1], arg, in[2], in[3], in[4])
  \/ \E path \in Existing, platform \in Platforms \ {""}, status \in {"draft", "approved"},
        approved_by \in BOOLEAN :
        FrontMatterEdit(path, platform, status, approved_by)
  \/ \E path \in Existing, body \in RawBodies : ExternalEdit(path, body, FALSE)
  \/ \E arg \in ArgsNow, in \in PostInputs :
        PostCmd(in[1], arg, in[2], in[3], in[4])

RetargetSpec == Init /\ [][RetargetNext]_vars

(***************************************************************************)
(* posters/x.ts: post.  A content is the sequence of its pieces between     *)
(* the "---" separator lines; a content of one piece has no separator.      *)
(* Tweet i of a run gets the id i from X; `outs` is what bird does on each   *)
(* call: "id" (its output shows status/<id>), "none" (its output shows no   *)
(* id) or "throw" (it exits with an error).                                  *)
(***************************************************************************)
Contents == {<<"a">>, <<"">>, <<" a ", "b">>, <<"a", " ", "b">>, <<"a", "b", "c">>}
BirdOuts == {"id", "none", "throw"}
NoId == 0                               \* lastTweetId is undefined

\* String.prototype.trim on the pieces.
trim(t) == CASE t = " a " -> "a" [] t = " " -> "" [] OTHER -> t

isThread(content) == Len(content) > 1

Trimmed(content) == [i \in 1..Len(content) |-> trim(content[i])]
splitThread(content) == SelectSeq(Trimmed(content), LAMBDA t : t # "")

tweetsOf(content) == IF isThread(content) THEN splitThread(content) ELSE content

\* A variant that falls back to the plaintext file when decryption fails.
decryptFailed_FallsBack(plain) == IF plain = NoTokens THEN Fail ELSE <<"tokens", plain[1], plain[2]>>

\* catch (err) { return { success: false, ... } }: no tokens are selected.
decryptFailed(plain) == Fail

\* The tokens post selects: <<"tokens", authToken, ct0>>, or Fail.
selectTokens(cwd, password) ==
  IF secrets["xtokens"] # NoSecret
  THEN IF getPassword(cwd, password) = Fail THEN decryptFailed(plainXTokens)
       ELSE IF decryptXTokens(password) = Fail THEN decryptFailed(plainXTokens)
       ELSE decryptXTokens(password)
  ELSE IF plainXTokens # NoTokens
  THEN <<"tokens", plainXTokens[1], plainXTokens[2]>>
  ELSE Fail

BirdCall(cmd, to, text, tokens) ==
  [cmd |-> cmd, to |-> to, text |-> text, authToken |-> tokens[2], ct0 |-> tokens[3]]

\* The for loop from tweet i on; run is [calls, lastTweetId, threw].
RECURSIVE birdLoop(_, _, _, _, _)
birdLoop(tweets, outs, tokens, i, run) ==
  IF i > Len(tweets) THEN run
  ELSE
  LET call == IF i = 1 THEN BirdCall("tweet", NoId, tweets[i], tokens)
              ELSE BirdCall("reply", run.lastTweetId, tweets[i], tokens)
      calls == Append(run.calls, call)
  IN
  IF outs[i] = "throw"
  THEN [calls |-> calls, lastTweetId |-> run.lastTweetId, threw |-> TRUE]
  ELSE birdLoop(tweets, outs, tokens, i + 1,
                [calls |-> calls,
                 lastTweetId |-> IF outs[i] = "id" THEN i ELSE run.lastTweetId,
                 threw |-> FALSE])

XResult(success, error, calls) == <<"result", success, error, calls>>

\* What post returns, with the bird tweet and reply calls it made.
xPost(content, dryRun, cwd, password, birdInstalled, outs) ==
  LET tweets == tweetsOf(content)
      tokens == selectTokens(cwd, password)
      run == birdLoop(tweets, outs, tokens, 1,
                      [calls |-> <<>>, lastTweetId |-> NoId, threw |-> FALSE])
  IN
  IF ~birdInstalled THEN XResult(FALSE, "bird CLI not found", <<>>)
  ELSE IF dryRun THEN XResult(TRUE, "Dry run", <<>>)
  ELSE IF tokens = Fail
  THEN XResult(FALSE, IF secrets["xtokens"] # NoSecret
                      THEN "Failed to decrypt X credentials"
                      ELSE "X not authenticated", <<>>)
  ELSE IF run.threw THEN XResult(FALSE, "bird failed", run.calls)
  ELSE XResult(TRUE, "", run.calls)

\* The arguments and the environment of one call of post.
XRun(content, dryRun, cwd, birdInstalled, outs) ==
  [content |-> content, dryRun |-> dryRun, cwd |-> cwd,
   birdInstalled |-> birdInstalled, outs |-> outs]

XPostCall(content, dryRun, cwd, password, birdInstalled, outs) ==
  /\ returned' = Returned("x.post", password,
                          xPost(content, dryRun, cwd, password, birdInstalled, outs),
                          XRun(content, dryRun, cwd, birdInstalled, outs))
  /\ UNCHANGED <<posters, notices, pending, files, keyFile, requireSignature, keygen, drafted, last, secrets>>

\* auth without encryption: writePlainXTokens.
WritePlainXTokens(tokens) ==
  /\ plainXTokens' = tokens
  /\ returned' = Returned("writePlainXTokens", "", Void, NoSecret)
  /\ UNCHANGED <<tempDirs, notices, pending, files, keyFile, requireSignature, keygen, drafted, last, secrets>>

\* The bytes of a sealed file are damaged on disk.
SealedFileCorrupted(store) ==
  /\ secrets[store] # NoSecret
  /\ ~secrets[store].corrupt
  /\ secrets' = [secrets EXCEPT ![store].corrupt = TRUE]
  /\ returned' = Returned("none", "", Void, NoSecret)
  /\ UNCHANGED <<posters, notices, pending, files, keyFile, requireSignature, keygen, drafted, last>>

\* <<content, dryRun, cwd, password, birdInstalled>>
XPostInputs ==
  {<<c, FALSE, Workspace, p, TRUE>> : c \in Contents, p \in {"correctpw", "secondpw"}}
    \cup {<<<<"a", "b", "c">>, FALSE, "home", "secondpw", TRUE>>,
          <<<<"a", "b", "c">>, TRUE, Workspace, "correctpw", TRUE>>,
          <<<<"a", "b", "c">>, FALSE, Workspace, "correctpw", FALSE>>}

OutsFor(content) == [1..Len(tweetsOf(content)) -> BirdOuts]

XNext ==
  \/ InitSecureSigningCall("correctpw", "correctpw")
  \/ \E tokens \in XTokens, p \in {"correctpw", "secondpw"} : EncryptXTokensCall(tokens, p)
  \/ \E tokens \in XTokens : WritePlainXTokens(tokens)
  \/ SealedFileCorrupted("xtokens")
  \/ \E in \in XPostInputs : \E outs \in OutsFor(in[1]) :
        XPostCall(in[1], in[2], in[3], in[4], in[5], outs)

XSpec == Init /\ [][XNext]_vars

(***************************************************************************)
(* posters/linkedin.ts: post.  browser is what the Playwright session does: *)
(* "posted", "loginPage" (the early return inside the try block) or          *)
(* "throws" (any call of the try block throws).                              *)
(***************************************************************************)
MaxTempDirs == 2
NoDir == 0
Browsers == {"posted", "loginPage", "throws"}
NoOption == ""                          \* options.password is not set

\* join(tmpdir(), `content-pipeline-${randomBytes(8).toString('hex')}`)
FreshTempDir == Cardinality(tempDirs) + 1

\* catch (err) { return {...} }: whether tempDir is still there afterwards.
decryptCatch(tempDir) == tempDir # NoDir

\* What post returns, the directory it created and whether it is left behind.
linkedinPost(cwd, optionsPassword, entered, profileDirExists, dryRun, browser) ==
  LET isEncrypted == secrets["profile"] # NoSecret
      password == IF optionsPassword # NoOption THEN <<"password", optionsPassword>>
                  ELSE getPassword(cwd, entered)
      session == IF browser = "posted" THEN <<"result", TRUE, IF dryRun THEN "Dry run" ELSE "">>
                 ELSE IF browser = "loginPage" THEN <<"result", FALSE, "Not logged in">>
                 ELSE <<"result", FALSE, "browser error">>
  IN
  IF isEncrypted /\ isSecureSigningEnabled(cwd)
  THEN IF password = Fail
       THEN [result |-> <<"result", FALSE, "Failed to decrypt profile">>,
             tempDir |-> NoDir, left |-> decryptCatch(NoDir)]
       ELSE IF decryptDirectory(password[2]) = Fail
       THEN [result |-> <<"result", FALSE, "Failed to decrypt profile">>,
             tempDir |-> FreshTempDir, left |-> decryptCatch(FreshTempDir)]
       ELSE [result |-> session, tempDir |-> FreshTempDir, left |-> FALSE]
  ELSE IF ~profileDirExists
  THEN [result |-> <<"result", FALSE, "Not logged in">>, tempDir |-> NoDir, left |-> FALSE]
  ELSE [result |-> session, tempDir |-> NoDir, left |-> FALSE]

LinkedInPostCall(cwd, optionsPassword, entered, profileDirExists, dryRun, browser) ==
  LET r == linkedinPost(cwd, optionsPassword, entered, profileDirExists, dryRun, browser) IN
  /\ r.tempDir # NoDir => Cardinality(tempDirs) < MaxTempDirs
  /\ tempDirs' = IF r.left THEN tempDirs \cup {r.tempDir} ELSE tempDirs
  /\ returned' = Returned("linkedin.post", entered, r.result,
                          [cwd |-> cwd, tempDir |-> r.tempDir])
  /\ UNCHANGED <<plainXTokens, notices, pending, files, keyFile, requireSignature, keygen, drafted, last, secrets>>

\* <<cwd, options.password, entered password, profile directory exists, dryRun>>
LinkedInInputs ==
  {<<Workspace, NoOption, p, TRUE, FALSE>> : p \in Passwords}
    \cup {<<Workspace, p, "correctpw", TRUE, FALSE>> : p \in {"correctpw", "secondpw"}}
    \cup {<<"home", NoOption, "correctpw", e, FALSE>> : e \in BOOLEAN}
    \cup {<<Workspace, NoOption, "correctpw", TRUE, TRUE>>}

LinkedInNext ==
  \/ InitSecureSigningCall("correctpw", "correctpw")
  \/ \E p \in {"correctpw", "secondpw"} : EncryptDirectoryCall("linkedin-profile", p)
  \/ SealedFileCorrupted("profile")
  \/ \E in \in LinkedInInputs, browser \in Browsers :
        LinkedInPostCall(in[1], in[2], in[3], in[4], in[5], browser)

LinkedInSpec == Init /\ [][LinkedInNext]_vars

(***************************************************************************)
(* post without --dry-run, with every reply to "Post this? [y/N]".          *)
(***************************************************************************)
Answers == {"y", "Y", "n", "N", "", "yes", "YES"}
\* <<cwd, answer, adapter>>
ConfirmInputs == {<<"ws", answer, "ok">> : answer \in Answers}
                 \cup {<<"ws", "y", "fail">>, <<"ws", "Y", "throw">>,
                       <<"home", "Y", "ok">>, <<"home", "yes", "ok">>}

ConfirmNext ==
  \/ \E in \in InitInputs : InitCmd(in[1], in[2], in[3])
  \/ \E body \in RawBodies, status \in DraftStatuses, platform \in DraftPlatforms :
        AgentDraft(body, status, platform)
  \/ \E arg \in ArgsNow, in \in ApproveInputs :
        ApproveCmd(in[1], arg, in[2], in[3], in[4])
  \/ \E path \in Existing, body \in RawBodies : ExternalEdit(path, body, FALSE)
  \/ \E arg \in ArgsNow, in \in ConfirmInputs :
        PostCmd(in[1], arg, FALSE, in[2], in[3])

ConfirmSpec == Init /\ [][ConfirmNext]_vars

(***************************************************************************)
(* Properties.  `last` is the outcome of the command that produced the      *)
(* state; a write from outside the CLI resets it, so a property of the      *)
(* form  last.cmd = ... => ...  speaks of the state right after a command.  *)
(***************************************************************************)
\* The file carries both signature fields, the stored hash is the hash of
\* the parsed body, and the signature verifies under publicKey.
PassesGate(file, publicKey) ==
  LET post == parsePost(file) IN
  /\ file.approval_signature # NoSig
  /\ file.content_hash # NoHash
  /\ hashContent(post.content) = file.content_hash
  /\ verifySignature(post.content, file.approval_signature, publicKey)

NoKeyFileAnywhere == \A d \in CwdDirs : keyFile[d] = NoKey

\* C1: when a key file exists for the workspace, post posts only an item
\* that carries approval_signature and content_hash, whose stored hash equals
\* the hash of its body and whose signature verifies under the stored public
\* key; in every other case it exits with an error and nothing is posted.
C1_PostRequiresValidSignature ==
  (last.cmd = "post" /\ last.path # NoPath /\ keyFile[Workspace] # NoKey) =>
    (~PassesGate(files[last.path], keyFile[Workspace].publicKey) =>
       (last.exit = 1 /\ ~AdapterInvoked))

\* C2: post invokes the adapter only on an item whose status is approved,
\* with or without a key file.
C2_OnlyApprovedIsPosted ==
  AdapterInvoked => files[last.path].status = "approved"

\* C3: a command that brings an item into the approved state while a key
\* file exists for the workspace has signed it: the approved item carries
\* approval_signature and content_hash, the hash being that of its body.
C3_ApprovedImpliesSigned ==
  (/\ last.cmd \in {"approve", "review"}
   /\ last.diag = "Approved"
   /\ keyFile[Workspace] # NoKey
   /\ files[last.path] # NoFile
   /\ files[last.path].status = "approved")
  => PassesGate(files[last.path], keyFile[Workspace].publicKey)

\* C4: an item approved with the vault enabled whose body was changed
\* afterwards, content_hash and approval_signature staying as approval wrote
\* them, makes post fail with the diagnostic "content has been modified
\* since approval" (not the invalid-signature one), without invoking the
\* adapter.
C4_TamperedBodyIsReported ==
  (/\ last.cmd = "post"
   /\ last.path # NoPath
   /\ keyFile[Workspace] # NoKey
   /\ files[last.path].status = "approved"
   /\ files[last.path].approval_signature # NoSig
   /\ files[last.path].content_hash # NoHash
   /\ files[last.path].approval_signature =
        <<"sig", files[last.path].content_hash, keyFile[Workspace].publicKey[2]>>
   /\ hashContent(parsePost(files[last.path]).content) # files[last.path].content_hash)
  => (last.diag = "ContentModified" /\ last.exit = 1 /\ ~AdapterInvoked)

\* C5: with standard input not a terminal and no --force, no command brings
\* an item into the approved state, and the refused approve changes no file.
C5_ApprovalNeedsTerminal ==
  [][\A arg \in ArgsNow :
       /\ \A in \in ReviewInputs :
            (~in[3] /\ ReviewCmd(arg, in[1], in[2], in[3]))
              => last'.diag # "Approved"
       /\ \A in \in ApproveInputs :
            (~in[2] /\ ~in[3] /\ ApproveCmd(in[1], arg, in[2], in[3], in[4]))
              => (last'.exit = 1 /\ files' = files)]_vars

\* C6: when a key file exists and signing fails during approve (wrong
\* password, key file that cannot be decrypted), approve exits with an
\* error and changes no file: the source is neither rewritten nor removed
\* and nothing appears in approved/.
C6_SigningFailureLeavesItem ==
  [][last'.cmd = "approve" /\ last'.prompted =>
       \A arg \in Args, in \in ApproveInputs :
         LET filePath == resolveContentFileV1(arg) IN
         (/\ ~approveRefusesStdin(in[2], in[3])
          /\ filePath # NoPath
          /\ files[filePath].status \notin {"approved", "posted"}
          /\ isSecureSigningEnabled(in[1])
          /\ signWithPassword(parsePost(files[filePath]).content, in[1], in[4]) = Fail
          /\ ApproveCmd(in[1], arg, in[2], in[3], in[4]))
         => (last'.exit = 1 /\ files' = files)]_vars

\* Reached: approve of a draft stopped by a signing failure.
C6_Witness ==
  /\ last.cmd = "approve"
  /\ last.diag = "SigningFailed"
  /\ keyFile[Workspace] # NoKey
  /\ files[last.path] # NoFile
  /\ files[last.path].status = "draft"
  /\ last.path[1] = "drafts"

\* C7: an item that has been posted is terminal: approve, review and post
\* on it all fail and leave it as it is.
C7_PostedIsTerminal ==
  [][\A p \in Existing, arg \in ArgsNow :
       (p[1] = "posted" \/ files[p].status = "posted") =>
         /\ \A in \in ApproveInputs :
              (resolveContentFileV1(arg) = p
               /\ ApproveCmd(in[1], arg, in[2], in[3], in[4]))
                => (last'.exit = 1 /\ files' = files)
         /\ \A in \in ReviewInputs :
              (resolveContentFile(arg) = p /\ ReviewCmd(arg, in[1], in[2], in[3]))
                => (last'.exit = 1 /\ files' = files)
         /\ \A in \in PostInputs :
              (resolveContentFile(arg) = p
               /\ PostCmd(in[1], arg, in[2], in[3], in[4]))
                => (last'.exit = 1 /\ files' = files)]_vars

\* C8: when the configuration has requireSignature set and the workspace
\* has no key file, approve and post do not go ahead unsigned or
\* unverified: approve approves nothing and post does not reach the adapter.
C8_RequireSignatureWithoutKey ==
  (requireSignature /\ keyFile[Workspace] = NoKey /\ last.cmd \in {"approve", "post"})
  => last.diag \notin {"Approved", "Posted", "AdapterFailed", "AdapterThrew"}

\* C9: initSecureSigning fails with an error whenever a key file already
\* exists, and leaves that key file as it is.
C9_InitKeepsExistingKey ==
  [][keyFile[Workspace] # NoKey /\ last'.cmd = "init" =>
       \A in \in InitInputs :
         (in[1] /\ InitCmd(in[1], in[2], in[3]))
           => (keyFile' = keyFile /\ last'.exit = 1 /\ last'.diag = "InitFailed")]_vars

\* Reached: init --secure refused because the key file exists.
C9_Witness ==
  /\ last.cmd = "init"
  /\ last.diag = "InitFailed"
  /\ ~last.prompted
  /\ keyFile[Workspace] # NoKey

\* C10: with no key file, approve adds no approval_signature or
\* content_hash and asks for no password, and post applies none of the
\* signature and hash checks.
C10_SigningIsOptIn ==
  NoKeyFileAnywhere =>
    /\ last.cmd = "approve" =>
         /\ ~last.prompted
         /\ last.diag # "SigningFailed"
         /\ (last.diag = "Approved" /\ files[last.path] # NoFile) =>
              /\ files[last.path].approval_signature = NoSig
              /\ files[last.path].content_hash = NoHash
    /\ last.cmd = "post" =>
         last.diag \notin {"MissingSignature", "ContentModified", "InvalidSignature"}

\* Reached: with no key file, approve has approved a draft unsigned.
C10_Witness ==
  /\ NoKeyFileAnywhere
  /\ last.cmd = "approve"
  /\ last.diag = "Approved"
  /\ files[last.path] # NoFile
  /\ files[last.path].status = "approved"
  /\ files[last.path].approval_signature = NoSig
  /\ files[last.path].content_hash = NoHash

\* C11: unlocking a correctly sealed key with any password other than the
\* sealing password fails: signWithPassword throws and returns no
\* signature, getPassword throws whenever the key file exists, and
\* decryptPrivateKey returns no private key.
C11_WrongPasswordNeverUnlocks ==
  (/\ returned.op \in {"signWithPassword", "getPassword", "decryptPrivateKey"}
   /\ returned.of # NoKey
   /\ ~returned.of.corrupt
   /\ returned.password # returned.of.sealedWith)
  => returned.value = Fail

\* Reached: signWithPassword has thrown on the short password "wrongpw"
\* given for a key file sealed with another password.
C11_Witness ==
  /\ returned.op = "signWithPassword"
  /\ returned.of # NoKey
  /\ returned.of = keyFile[Workspace]
  /\ returned.of.sealedWith # "wrongpw"
  /\ returned.password = "wrongpw"
  /\ returned.value = Fail

C13_FeedbackIsAppendOnly ==
  [][\A arg \in ArgsNow, feedback \in FeedbackRounds :
       LET filePath == resolveContentFile(arg) IN
       (/\ filePath # NoPath
        /\ files[filePath].review_feedback # NoFeedback
        /\ ReviewCmd(arg, feedback, "n", TRUE))
       => /\ files'[last'.path] # NoFile
          /\ files'[last'.path].review_feedback = files[filePath].review_feedback]_vars

\* C14: each transition is atomic with respect to the item's file: while
\* approve, approve via review or the move to reviewed/ is between two of its
\* file-system calls, and after it was killed there, the item is at exactly
\* one path (never at both its source and its destination, never at neither).
C14_TransitionIsAtomic ==
  (pending # NoPending \/ last.diag = "Interrupted") =>
    LET name == IF pending # NoPending THEN pending.from[2] ELSE last.path[2] IN
    Cardinality({p \in Existing : p[2] = name}) = 1

\* C15: a post attempt that fails (validation errors, a gate failure, the
\* adapter returning success = false or throwing) leaves every content file
\* where and as it was; a post changes files only by renaming the item,
\* content unchanged, into posted/, and only when the adapter succeeded.
\* (The file is named by its path: a bare name that resolves to it gives the
\* same run.)
C15_FailedPostLeavesItem ==
  [][last'.cmd = "post" /\ files' # files =>
       \A filePath \in Paths, i \in PostInputs :
         LET post == parsePost(files[filePath])
             r == PostResult(i[1], filePath, i[2], i[3], i[4])
             failed == \/ validatePost(post, DEFAULT_CONFIG).errors # {}
                       \/ postGate(post, i[1]) # "ok"
                       \/ i[4] # "ok"
         IN
         (/\ files[filePath] # NoFile
          /\ last'.path = filePath \/ files'[filePath] = NoFile
          /\ last' = r.last
          /\ files' = r.files) =>
           /\ failed => files' = files
           /\ files' # files =>
                /\ i[4] = "ok"
                /\ last'.path[1] = "posted"
                /\ files'[last'.path] = files[filePath]
                /\ \A p \in Paths \ {filePath, last'.path} : files'[p] = files[p]]_vars

C15_Witness ==
  /\ last.cmd = "post"
  /\ last.diag \in {"AdapterFailed", "AdapterThrew"}
  /\ files[last.path] # NoFile
  /\ last.path[1] = "approved"

\* C16: a transition that is illegal for the item's status changes nothing:
\* review with feedback on an item that is already approved neither moves it
\* out of approved/ nor rewrites it.
C16_ReviewLeavesApprovedItem ==
  [][last'.cmd = "review" =>
       \A arg \in ArgsNow, feedback \in Feedbacks :
         LET filePath == resolveContentFile(arg) IN
         (/\ filePath # NoPath
          /\ filePath[1] = "approved"
          /\ files[filePath].status = "approved"
          /\ ReviewCmd(arg, feedback, "n", TRUE))
         => files' = files]_vars

\* C17: attempting approve twice is a no-op or an explicit signal: approve of
\* an item whose status is already approved reports "Already approved", exits
\* with status 0 and changes no file; and an approve that follows a
\* successful approve of the same item does exactly that.
C17_ApproveTwiceIsApproveOnce ==
  [][last'.cmd = "approve" =>
       \A arg \in ArgsNow, i \in ApproveInputs :
         LET filePath == resolveContentFileV1(arg)
             already == files[filePath].status = "approved"
             again == last.cmd = "approve" /\ last.diag = "Approved" /\ arg = last.path
         IN
         (/\ filePath # NoPath
          /\ already \/ again
          /\ ~approveRefusesStdin(i[2], i[3])
          /\ ApproveCmd(i[1], arg, i[2], i[3], i[4]))
         => /\ files' = files
            /\ last'.diag = "AlreadyApproved"
            /\ last'.exit = 0]_vars

\* C18: every file that stores a sealed secret (the signing key file, the
\* encrypted X tokens, the encrypted profile archive, the encrypted Reddit
\* credentials) is readable and writable by its owner only (0600) once the
\* operation that stored it has completed.
C18_SealedFilesAreOwnerOnly ==
  /\ \A d \in CwdDirs : keyFile[d] # NoKey => keyFile[d].mode = "0600"
  /\ \A s \in Stores : secrets[s] # NoSecret => secrets[s].mode = "0600"

\* C19: a successful approve of an item whose status is neither approved nor
\* posted leaves in approved/ a file with status approved and the approver
\* recorded (and content_hash and approval_signature when a key file
\* exists), its body unchanged, whatever the item's status and directory.
C19_ApproveWritesApprovedItem ==
  [][last'.cmd = "approve" /\ last'.diag = "Approved" =>
       \A arg \in ArgsNow, i \in ApproveInputs :
         LET filePath == resolveContentFileV1(arg)
             new == files'[<<"approved", filePath[2]>>]
         IN
         (/\ filePath # NoPath
          /\ files[filePath].status \notin {"approved", "posted"}
          /\ ApproveCmd(i[1], arg, i[2], i[3], i[4]))
         => /\ new # NoFile
            /\ new.status = "approved"
            /\ new.approved_by
            /\ new.body = files[filePath].body
            /\ isSecureSigningEnabled(i[1]) =>
                 new.content_hash # NoHash /\ new.approval_signature # NoSig]_vars

\* C20: review with feedback saves the feedback on the item and moves it to
\* reviewed/; review without feedback asks "Approve?" and moves the item to
\* approved/, as approved, only when the answer is y; with any other answer
\* no file is changed.
C20_ReviewOutcomes ==
  [][last'.cmd = "review" =>
       \A arg \in ArgsNow, i \in ReviewInputs :
         LET filePath == resolveContentFile(arg)
             reviewedPath == <<"reviewed", filePath[2]>>
             approvedPath == <<"approved", filePath[2]>>
         IN
         (filePath # NoPath /\ ReviewCmd(arg, i[1], i[2], i[3])) =>
           IF i[1] # NoFeedback
           THEN /\ files'[reviewedPath] # NoFile
                /\ files'[reviewedPath].review_feedback = i[1]
                /\ filePath # reviewedPath => files'[filePath] = NoFile
           ELSE IF i[2] = "y"
           THEN /\ files'[approvedPath] # NoFile
                /\ files'[approvedPath].status = "approved"
                /\ filePath # approvedPath => files'[filePath] = NoFile
           ELSE files' = files]_vars

\* C21: the effect of review on the item's file (feedback saved, file moved
\* to reviewed/) and its success are the same whether the agent notification
\* is not configured, delivers, fails or throws: a notification failure
\* neither aborts nor undoes the transition.
C21_NotificationDoesNotMatter ==
  [][last'.cmd = "review" =>
       \A arg \in Args, feedback \in FeedbackRounds, clawdbot \in Clawdbots :
         LET filePath == resolveContentFile(arg)
             alone == ReviewResult(arg, feedback, "n", TRUE)
         IN
         (filePath # NoPath /\ ReviewNotifyCmd(arg, feedback, "n", TRUE, clawdbot)) =>
           /\ files' = alone.files
           /\ last' = alone.last
           /\ last'.exit = 0
           /\ files'[<<"reviewed", filePath[2]>>] # NoFile
           /\ files'[<<"reviewed", filePath[2]>>].review_feedback = feedback]_vars

\* Reached: a review whose notification was not delivered, the file in reviewed/.
C21_Witness ==
  /\ last.cmd = "review"
  /\ last.diag = "FeedbackSaved"
  /\ files[last.path] # NoFile
  /\ files[last.path].review_feedback = "shorter"
  /\ <<last.path[2], "shorter">> \notin notices
  /\ <<last.path[2], "punchier">> \in notices

\* C22: for every content and every generated key pair, verifySignature
\* accepts, with the pair's public key, the signature signContent makes of
\* that content with the pair's private key, also when the private key was
\* obtained by decrypting the key file with the correct password.
C22_SignThenVerify ==
  (/\ returned.op = "verifySignature"
   /\ \E k \in KeyPairs :
        /\ returned.of.publicKey = <<"pub", k>>
        /\ returned.of.signature = signContent(returned.of.content, <<"priv", k>>))
  => returned.value = <<"verify", "true">>

\* Reached: the signature made through the key file, verified with its public key.
C22_Witness ==
  /\ returned.op = "verifySignature"
  /\ returned.password = "secondpw"
  /\ keyFile[Workspace] # NoKey
  /\ keyFile[Workspace].sealedWith = "secondpw"
  /\ returned.of.publicKey = keyFile[Workspace].publicKey
  /\ returned.of.content = 1
  /\ returned.value = <<"verify", "true">>

\* C23: verifySignature(c2, signContent(c1, privA), pubB) is false whenever
\* c2 differs from c1 or key pair B is not key pair A.
C23_WrongKeyOrContent ==
  (/\ returned.op = "verifySignature"
   /\ \E c1 \in 0..MaxBody, kA \in KeyPairs :
        /\ returned.of.signature = signContent(c1, <<"priv", kA>>)
        /\ returned.of.content # c1 \/ returned.of.publicKey # <<"pub", kA>>)
  => returned.value = <<"verify", "false">>

\* Reached: a signature of the same content checked against another pair's key.
C23_Witness ==
  /\ returned.op = "verifySignature"
  /\ returned.of.signature = signContent(1, <<"priv", 1>>)
  /\ returned.of.content = 1
  /\ returned.of.publicKey = <<"pub", 2>>
  /\ returned.value = <<"verify", "false">>

\* C24: verifySignature never throws: it returns true or false, and false
\* for a signature or a public key that is malformed.
C24_VerifyNeverThrows ==
  returned.op = "verifySignature" =>
    /\ returned.value \in {<<"verify", "true">>, <<"verify", "false">>}
    /\ (\/ returned.of.signature \in {<<"not-a-valid-signature">>, NoSig}
        \/ returned.of.publicKey \in {<<"not-a-key">>, NoPub})
       => returned.value = <<"verify", "false">>

\* Reached: a well-formed signature checked against a key that is no key.
C24_Witness ==
  /\ returned.op = "verifySignature"
  /\ returned.of.signature = signContent(0, <<"priv", 1>>)
  /\ returned.of.content = 0
  /\ returned.of.publicKey = <<"not-a-key">>
  /\ returned.value = <<"verify", "false">>

\* C25: a dry-run post never invokes the adapter's post and never moves or
\* modifies a content file.
C25_DryRunChangesNothing ==
  [][last'.cmd = "post" =>
       \A filePath \in Paths, i \in PostInputs :
         LET r == PostResult(i[1], filePath, i[2], i[3], i[4]) IN
         (/\ i[2]
          /\ files[filePath] # NoFile
          /\ last'.path = filePath \/ files'[filePath] = NoFile
          /\ last' = r.last
          /\ files' = r.files)
         => (files' = files /\ ~AdapterInvoked')]_vars

\* Reached: a dry run of an approved item that passed validation and the gate.
C25_Witness ==
  /\ last.cmd = "post"
  /\ last.diag = "DryRun"
  /\ last.path[1] = "approved"
  /\ files[last.path] # NoFile
  /\ files[last.path].status = "approved"

\* C26: validatePost returns valid = true exactly when errors is empty;
\* there are errors exactly when the platform is missing, the status is
\* missing, the content is empty, or requireApproval is set and the status
\* is approved and the approval field is absent; a draft or posted status
\* adds a warning and never makes the post invalid.
C26_ValidatePost ==
  returned.op = "validatePost" =>
    LET post == returned.of.post
        config == returned.of.config
        r == returned.value[2]
        unapproved == /\ config.requireApproval
                      /\ post.frontmatter.status = "approved"
                      /\ ~post.frontmatter.approved_by
        wrong == \/ post.frontmatter.platform = ""
                 \/ post.frontmatter.status = ""
                 \/ post.content = 0
                 \/ unapproved
    IN /\ r.valid <=> r.errors = {}
       /\ r.errors # {} <=> wrong
       /\ "platform" \in r.errors <=> post.frontmatter.platform = ""
       /\ "status" \in r.errors <=> post.frontmatter.status = ""
       /\ "empty" \in r.errors <=> post.content = 0
       /\ "approval" \in r.errors <=> unapproved
       /\ post.frontmatter.status \in {"draft", "posted"} =>
            /\ r.warnings # {}
            /\ r.valid <=> (post.frontmatter.platform # "" /\ post.content # 0)

\* Reached: a draft with a platform and content: valid, with a warning.
C26_Witness ==
  /\ returned.op = "validatePost"
  /\ returned.of.post.frontmatter.status = "draft"
  /\ returned.of.post.frontmatter.platform = "x"
  /\ returned.of.post.content = 1
  /\ returned.of.config.requireApproval
  /\ returned.value[2].valid
  /\ returned.value[2].warnings = {"draft"}

\* C27: the signature gate applies whenever the workspace has a key file,
\* whatever directory the command is run from: post from another directory
\* reaches the same gate decision, and approve from another directory gives
\* the same result, as the command run in the workspace.
C27_GateWhereverRun ==
  keyFile[Workspace] # NoKey =>
    \A filePath \in Existing, cwd \in CwdDirs :
      /\ postGate(parsePost(files[filePath]), cwd)
           = postGate(parsePost(files[filePath]), Workspace)
      /\ \A i \in ApproveInputs :
           ApproveResult(cwd, filePath, i[2], i[3], i[4])
             = ApproveResult(Workspace, filePath, i[2], i[3], i[4])

\* C28: approve, and approve via review, never destroys the item: after a
\* successful run exactly one copy of the item exists and it is in
\* approved/, also when the file resolved for the command was already there.
C28_ApproveKeepsTheItem ==
  (last.cmd \in {"approve", "review"} /\ last.diag = "Approved") =>
    /\ last.path[1] = "approved"
    /\ files[last.path] # NoFile
    /\ Cardinality({p \in Existing : p[2] = last.path[2]}) = 1

\* C29: a transition never overwrites a different item: approve, and approve
\* via review, leave an existing file of the same name in approved/ as it
\* is, and review with feedback leaves an existing file of the same name in
\* reviewed/ as it is.
C29_NoOverwrite ==
  [][(last'.cmd \in {"approve", "review"} /\ last'.diag \in {"Approved", "FeedbackSaved"}) =>
       \A filePath \in Existing :
         (/\ files'[filePath] = NoFile
          /\ filePath # last'.path
          /\ filePath[2] = last'.path[2]
          /\ files[last'.path] # NoFile)
         => files'[last'.path] = files[last'.path]]_vars

\* C30: the decision of the post gate depends only on the parsed body,
\* content_hash, approval_signature and the stored public key: an item and
\* any item that differs from it only in platform, status or approved_by
\* get the same gate outcome, so a platform changed after approval does not
\* block the post.
C30_GateIgnoresMetadata ==
  \A filePath \in Existing, cwd \in CwdDirs :
    \A platform \in Platforms, status \in Statuses, approved_by \in BOOLEAN :
      LET file == files[filePath]
          other == [file EXCEPT !.platform = platform, !.status = status,
                                !.approved_by = approved_by]
      IN postGate(parsePost(other), cwd) = postGate(parsePost(file), cwd)

\* Reached: a signed item whose platform and status were rewritten after the
\* approval (approve leaves status approved on what it signs), posted
\* through the gate.
C30_Witness ==
  /\ last.cmd = "post"
  /\ last.diag = "Posted"
  /\ keyFile[Workspace] # NoKey
  /\ files[last.path] # NoFile
  /\ files[last.path].platform = "linkedin"
  /\ files[last.path].status = "draft"
  /\ PassesGate(files[last.path], keyFile[Workspace].publicKey)

\* C31: in a post without --dry-run the adapter's post runs only when the
\* gate returned ok and the reply to "Post this?" was y or Y; with any other
\* reply the command ends with nothing posted and every file as it was.
C31_PostNeedsConfirmation ==
  [][last'.cmd = "post" =>
       \A filePath \in Paths, in \in ConfirmInputs :
         LET cwd == in[1]
             answer == in[2]
             r == PostResult(cwd, filePath, FALSE, answer, in[3])
         IN
         (/\ files[filePath] # NoFile
          /\ last'.path = filePath \/ files'[filePath] = NoFile
          /\ last' = r.last
          /\ files' = r.files)
         => /\ AdapterInvoked' =>
                 /\ postGate(parsePost(files[filePath]), cwd) = "ok"
                 /\ answer \in {"y", "Y"}
            /\ answer \notin {"y", "Y"} =>
                 /\ files' = files
                 /\ ~AdapterInvoked']_vars

\* Reached: a signed item of a workspace with a key file was posted and
\* archived, which takes a reply of y or Y after the gate verified it.
C31_Witness ==
  /\ last.cmd = "post"
  /\ last.diag = "Posted"
  /\ last.path[1] = "posted"
  /\ keyFile[Workspace] # NoKey
  /\ files[last.path] # NoFile
  /\ files[last.path].status = "approved"
  /\ PassesGate(files[last.path], keyFile[Workspace].publicKey)

\* C32: when x-tokens.enc exists, every bird tweet or reply of a post
\* carries the two tokens decryptXTokens returns for the entered password;
\* when getPassword rejects the password or decryptXTokens fails, post
\* returns success = false and has made no bird tweet or reply, whatever the
\* plaintext token file holds.
C32_OnlyDecryptedTokens ==
  [][returned'.op = "x.post" /\ secrets["xtokens"] # NoSecret =>
       LET run == returned'.of
           password == returned'.password
           result == returned'.value
           tokens == decryptXTokens(password)
           calls == result[4]
           asked == run.birdInstalled /\ ~run.dryRun
           rejected == asked /\ (getPassword(run.cwd, password) = Fail \/ tokens = Fail)
       IN
       /\ \A i \in 1..Len(calls) :
             /\ tokens # Fail
             /\ calls[i].authToken = tokens[2]
             /\ calls[i].ct0 = tokens[3]
       /\ rejected => (result[2] = FALSE /\ calls = <<>>)]_vars

\* Reached: with both token files present and holding different tokens, post
\* was given a password that does not open x-tokens.enc and returned the
\* decryption failure.
C32_Witness ==
  /\ returned.op = "x.post"
  /\ secrets["xtokens"] # NoSecret
  /\ plainXTokens # NoTokens
  /\ plainXTokens # <<secrets["xtokens"].encrypted[2], secrets["xtokens"].encrypted[3]>>
  /\ decryptXTokens(returned.password) = Fail
  /\ returned.value = XResult(FALSE, "Failed to decrypt X credentials", <<>>)

\* C35: when post sends a thread of n tweets, call i carries tweet i of the
\* thread, the first call is bird tweet, and every later call i is bird reply
\* to the id X gave tweet i-1 of this thread.
C35_ThreadIsAChain ==
  returned.op = "x.post" =>
    LET calls == returned.value[4]
        tweets == tweetsOf(returned.of.content)
    IN \A i \in 1..Len(calls) :
         /\ calls[i].text = tweets[i]
         /\ i = 1 => calls[i].cmd = "tweet"
         /\ i > 1 => (calls[i].cmd = "reply" /\ calls[i].to = i - 1)

\* C33: when the LinkedIn poster's post returns, the temporary directory it
\* created for the decrypted profile, if any, no longer exists: on success,
\* on a browser failure, on a rejected password and on a failed decryption.
C33_TempDirRemoved ==
  returned.op = "linkedin.post" =>
    (returned.of.tempDir # NoDir => returned.of.tempDir \notin tempDirs)

\* C34: called where no key file exists, initSecureSigning leaves a key file
\* only if the two password entries are equal and the password has at least
\* 8 characters; on a mismatch or a shorter password it throws, no key file
\* exists afterwards and isSecureSigningEnabled is false.
C34_InitChecksPassword ==
  (returned.op = "initSecureSigning" /\ ~returned.of.existed) =>
    LET password == returned.password
        accepted == /\ password = returned.of.confirmPassword
                    /\ PwLen(password) >= MinPasswordLength
    IN /\ keyFile[Workspace] # NoKey => accepted
       /\ returned.value # Fail => accepted
       /\ ~accepted => /\ returned.value = Fail
                       /\ keyFile[Workspace] = NoKey
                       /\ ~isSecureSigningEnabled(Workspace)

\* Reached: with no key file, the same 7-character password was entered
\* twice; initSecureSigning threw and left no key file.
C34_Witness ==
  /\ returned.op = "initSecureSigning"
  /\ ~returned.of.existed
  /\ returned.password = returned.of.confirmPassword
  /\ PwLen(returned.password) = 7
  /\ returned.value = Fail
  /\ keyFile[Workspace] = NoKey
====
